---- MODULE Spec2Model ----
(***************************************************************************)
(* Event Processor Service (services/event-processor/main.py).             *)
(*                                                                         *)
(* The model follows the asyncio structure of the service: every action    *)
(* is the code that runs between two suspension points (await) of one      *)
(* coroutine, or one whole HTTP handler when the handler never suspends.   *)
(* The Event Hub client, the Cosmos container and Redis are the            *)
(* environment: their answers are inputs of the actions.                   *)
(***************************************************************************)
EXTENDS Naturals, Sequences, FiniteSets

(***************************************************************************)
(* Bounds of the model.                                                    *)
(***************************************************************************)
\* batches handed to the on_event_batch callback of one partition in one run
MaxBatches == 1
\* process_events tasks created during one run
MaxTasks == 3
\* failure-injection policies installed during one run, the initial one included
MaxVersions == 2
\* partition-level errors reported by the stream client during one run
MaxPartitionErrors == 1

(***************************************************************************)
(* Program constants.                                                      *)
(***************************************************************************)
\* ltrim(cache_key, 0, 99): the list keeps the entries at index 0..99
LTRIM_STOP == 99
\* expire(cache_key, 3600)
EXPIRE_SECONDS == 3600

Partitions == {"0", "1"}

\* len(event_batch) of the batches the stream hands over (the code asks for
\* max_batch_size = 10 and max_wait_time = 5, so a batch may be empty)
BatchSizes == {0, 1, 2}

\* EventType property values, and None for an event without the property
NoProperty == "<none>"
EventTypeProps == {"OrderCreated", "OrderStatusUpdated", NoProperty}

\* event bodies, as the text body_as_str() returns
BodyOrder    == "{\"OrderId\": \"O1\", \"CustomerId\": \"C1\"}"
BodyNoId     == "{\"foo\": 1, \"bar\": 2}"
BodyList     == "[1, 2]"
BodyBad      == "{\"OrderId\": "

\* no event: the callback is between two events
NoEvent == [EventType |-> NoProperty, body |-> ""]

\* the events the stream delivers
Events ==
    { [EventType |-> "OrderCreated",       body |-> BodyOrder],
      [EventType |-> "OrderStatusUpdated", body |-> BodyOrder],
      [EventType |-> NoProperty,           body |-> BodyNoId],
      [EventType |-> "OrderCreated",       body |-> BodyList],
      [EventType |-> "OrderCreated",       body |-> BodyBad] }

\* probabilities of the policy, in percent, and the values random.random()
\* returns, in percent (random() is in [0, 1), so never 100)
LatencyValues == {0, 10}
ErrorValues == {0, 5}
Draws == {2, 50}

\* readings of the wall clock (time.time(), datetime.utcnow())
ClockReadings == {1, 2}

\* answers of Redis and of update_checkpoint: done, or an error raised
Answers == {"ok", "error"}

\* answers of the Cosmos container to upsert_item
StoreAnswers == {"ok", "conflict", "error"}

ErrorTypes == {"processing_error", "partition_error", "consumer_error"}

VARIABLES
    \* --- supervisor ---
    startup,            \* position of startup_event: "pending", "done", "failed"
    redis_client,       \* EventProcessor.redis_client is set
    cosmos_container,   \* EventProcessor.cosmos_container is set
    consumer_client,    \* EventProcessor.consumer_client is set
    running,            \* EventProcessor.running
    tasks,              \* the process_events tasks created, in creation order
    last_start,         \* the answer of the last POST /start-processing
    \* --- failure-injection policy ---
    config,             \* the Config object's three failure-injection fields
    versions,           \* every policy installed so far
    \* --- per-partition on_event_batch callback ---
    pc,                 \* where the callback of a partition is suspended
    size,               \* len(event_batch)
    event,              \* the event process_single_event is working on
    done,               \* terminal outcome of each event of the batch, in order
    mif,                \* what maybe_inject_failure read for the event
    span,               \* what store_processed_event set on the event's span
    \* --- collaborators ---
    delivered,          \* batches handed to on_event_batch so far, by partition
    checkpoints,        \* update_checkpoint calls that advanced the partition
    store,              \* documents of the Cosmos container
    cache,              \* Redis lists, by key
    ttl,                \* Redis keys that carry an expiry
    \* --- metrics and side effects ---
    events_processed,   \* events_processed_total
    errors,             \* event_processing_errors_total, by error_type
    notifications       \* notifications sent

supVars  == <<startup, redis_client, cosmos_container, consumer_client,
              running, tasks, last_start>>
cfgVars  == <<config, versions>>
cbVars   == <<pc, size, event, done, mif, span>>
extVars  == <<delivered, checkpoints, store, cache, ttl>>
metVars  == <<events_processed, errors, notifications>>
vars     == <<supVars, cfgVars, cbVars, extVars, metVars>>


(***************************************************************************)
(* Pure functions of the code.                                             *)
(***************************************************************************)
Min(a, b) == IF a <= b THEN a ELSE b

\* json.loads(event.body_as_str()) (line 276): a decoded value, or the
\* JSONDecodeError it raises
JsonLoads(text) ==
    CASE text = BodyOrder ->
           [ok |-> TRUE, kind |-> "dict",
            value |-> [OrderId |-> "O1", CustomerId |-> "C1"]]
      [] text = BodyNoId ->
           [ok |-> TRUE, kind |-> "dict", value |-> [foo |-> 1, bar |-> 2]]
      [] text = BodyList ->
           [ok |-> TRUE, kind |-> "list", value |-> <<1, 2>>]
      [] OTHER ->
           [ok |-> FALSE, kind |-> "JSONDecodeError", value |-> <<>>]

\* event.properties.get("EventType", "Unknown") (line 277)
EventTypeOf(e) ==
    IF e.EventType = NoProperty THEN "Unknown" ELSE e.EventType

EventTypes == {EventTypeOf(e) : e \in Events}

\* dict.get(key, default)
DictGet(d, key, default) == IF key \in DOMAIN d THEN d[key] ELSE default

\* str() of a natural number, as an f-string formats it
RECURSIVE IntToStr(_)
IntToStr(n) ==
    LET digit(d) == CASE d = 0 -> "0" [] d = 1 -> "1" [] d = 2 -> "2"
                      [] d = 3 -> "3" [] d = 4 -> "4" [] d = 5 -> "5"
                      [] d = 6 -> "6" [] d = 7 -> "7" [] d = 8 -> "8"
                      [] OTHER -> "9"
    IN  IF n < 10 THEN digit(n) ELSE IntToStr(n \div 10) \o digit(n % 10)

\* json.dumps of a decoded body
JsonDumps(value) ==
    CASE value = JsonLoads(BodyOrder).value -> BodyOrder
      [] value = JsonLoads(BodyNoId).value -> BodyNoId
      [] OTHER -> BodyList

\* datetime.utcnow().isoformat() at a clock reading
IsoFormat(clock) == "T" \o IntToStr(clock)

\* event_data.get("OrderId", f"unknown_{int(time.time() * 1000)}") (line 390)
OrderIdOf(event_data, clock) ==
    DictGet(event_data, "OrderId", "unknown_" \o IntToStr(clock * 1000))

\* f"{event_type}_{order_id}" (line 393)
DocumentId(event_type, order_id) == event_type \o "_" \o order_id

\* the document store_processed_event builds (lines 392-398)
Document(event_data, event_type, clock) ==
    [id                |-> DocumentId(event_type, OrderIdOf(event_data, clock)),
     eventType         |-> event_type,
     eventData         |-> event_data,
     processedAt       |-> IsoFormat(clock),
     processingService |-> "event-processor"]

\* what the container holds after upsert_item(document) is applied
\* (variant: the document is added beside the ones of its id)
UpsertItemAdds(container, document) == container \cup {document}

UpsertItem(container, document) ==
    {d \in container : d.id # document.id} \cup {document}

\* f"recent_events:{event_type}" (line 422)
CacheKey(event_type) == "recent_events:" \o event_type

CacheKeys == {CacheKey(t) : t \in EventTypes}

\* json.dumps(event_summary): the text cache_event_summary pushes (lines
\* 423-429)
EventSummary(event_data, event_type, clock) ==
    "{\"timestamp\": \"" \o IsoFormat(clock) \o "\", \"type\": \""
        \o event_type \o "\", \"data\": " \o JsonDumps(event_data) \o "}"

\* Redis LPUSH and LTRIM on one list
LPush(list, value) == <<value>> \o list
\* (variant: the trim keeps the tail of the list, as ltrim(-100, -1) would)
LTrimKeepsTail(list, start, stop) ==
    SubSeq(list, Len(list) - Min(stop - start + 1, Len(list)) + 1, Len(list))

LTrim(list, start, stop) == SubSeq(list, start + 1, Min(stop + 1, Len(list)))

\* maybe_inject_failure up to its first suspension (lines 438-452), with the
\* two values random.random() returns: "pass" (returns), "sleep" (suspends in
\* the injected delay) or "raise" (the injected error)
InjectError(error_probability, r2) ==
    IF r2 < error_probability THEN "raise" ELSE "pass"

\* (variant: the enabled flag is not looked at)
InjectStartUnguarded(cfg, r1, r2) ==
    IF r1 < cfg.LATENCY_INJECTION_PROBABILITY THEN "sleep"
    ELSE InjectError(cfg.ERROR_INJECTION_PROBABILITY, r2)

InjectStart(cfg, r1, r2) ==
    IF ~cfg.FAILURE_INJECTION_ENABLED THEN "pass"
    ELSE IF r1 < cfg.LATENCY_INJECTION_PROBABILITY THEN "sleep"
    ELSE InjectError(cfg.ERROR_INJECTION_PROBABILITY, r2)

\* GET /health (lines 466-473) and GET /failure-injection (lines 493-502):
\* handlers that read and never suspend (the timestamp fields are left out)
health_check ==
    [status |-> "healthy", service |-> "event-processor", running |-> running]

get_failure_injection_config ==
    [enabled             |-> config.FAILURE_INJECTION_ENABLED,
     latency_probability |-> config.LATENCY_INJECTION_PROBABILITY,
     error_probability   |-> config.ERROR_INJECTION_PROBABILITY,
     service             |-> "event-processor"]

(***************************************************************************)
(* Initial state: the module is imported, EventProcessor() is constructed  *)
(* (lines 186-192), Config holds the environment's values (lines 163-165), *)
(* and Redis and Cosmos hold what earlier runs left.                       *)
(***************************************************************************)
Policies ==
    [FAILURE_INJECTION_ENABLED     : BOOLEAN,
     LATENCY_INJECTION_PROBABILITY : LatencyValues,
     ERROR_INJECTION_PROBABILITY   : ErrorValues]

\* the policy when the environment sets none of the three variables (lines
\* 163-165): enabled, 0.1, 0.05
DefaultPolicy ==
    [FAILURE_INJECTION_ENABLED     |-> TRUE,
     LATENCY_INJECTION_PROBABILITY |-> 10,
     ERROR_INJECTION_PROBABILITY   |-> 5]

\* the default policy with the master switch off
DisabledPolicy == [DefaultPolicy EXCEPT !.FAILURE_INJECTION_ENABLED = FALSE]

\* an entry an earlier run pushed
OldSummary == "{}"

\* maybe_inject_failure has read nothing
NothingRead == [x \in {} |-> 0]

\* lengths of the Redis lists at start: empty, or full
InitialFills == {0, LTRIM_STOP + 1}

Init ==
    /\ startup = "pending"
    /\ redis_client = FALSE
    /\ cosmos_container = FALSE
    /\ consumer_client = FALSE
    /\ running = FALSE
    /\ tasks = <<>>
    /\ last_start = "none"
    /\ config \in Policies
    /\ versions = {config}
    /\ pc = [p \in Partitions |-> "idle"]
    /\ size = [p \in Partitions |-> 0]
    /\ event = [p \in Partitions |-> NoEvent]
    /\ done = [p \in Partitions |-> <<>>]
    /\ mif = [p \in Partitions |-> NothingRead]
    /\ span = [p \in Partitions |-> "none"]
    /\ delivered = [p \in Partitions |-> 0]
    /\ checkpoints = [p \in Partitions |-> 0]
    /\ store = {}
    /\ \E n \in InitialFills :
          /\ cache = [k \in CacheKeys |-> [i \in 1..n |-> OldSummary]]
          /\ ttl = [k \in CacheKeys |-> IF n = 0 THEN 0 ELSE EXPIRE_SECONDS]
    /\ events_processed = 0
    /\ errors = [t \in ErrorTypes |-> 0]
    /\ notifications = 0

(***************************************************************************)
(* Supervisor: startup, POST /start-processing, the process_events task.   *)
(***************************************************************************)
\* asyncio.create_task(event_processor.process_events()): the task exists,
\* and runs its first step when the event loop schedules it
CreateTask(by) == tasks' = Append(tasks, [pc |-> "created", by |-> by])

\* startup_event (lines 458-464) with initialize (lines 194-230): the Redis
\* client is assigned before the ping; a failed ping raises out of startup.
\* cosmos_set and hub_set say whether the environment configures them.
\* (variant: initialize logs the error and does not raise it again)
StartupSwallows(ping_ok, cosmos_set, hub_set) ==
    /\ startup = "pending"
    /\ redis_client' = TRUE
    /\ IF ~ping_ok
       THEN /\ startup' = "failed"
            /\ UNCHANGED <<cosmos_container, consumer_client>>
       ELSE /\ cosmos_container' = cosmos_set
            /\ consumer_client' = hub_set
            /\ startup' = "done"
    /\ IF ~running THEN CreateTask("startup") ELSE UNCHANGED tasks
    /\ UNCHANGED <<running, last_start, cfgVars, cbVars, extVars, metVars>>

Startup(ping_ok, cosmos_set, hub_set) ==
    /\ startup = "pending"
    /\ redis_client' = TRUE
    /\ IF ~ping_ok
       THEN /\ startup' = "failed"
            /\ UNCHANGED <<cosmos_container, consumer_client, tasks>>
       ELSE /\ cosmos_container' = cosmos_set
            /\ consumer_client' = hub_set
            /\ startup' = "done"
            /\ IF ~running THEN CreateTask("startup") ELSE UNCHANGED tasks
    /\ UNCHANGED <<running, last_start, cfgVars, cbVars, extVars, metVars>>

\* POST /start-processing (lines 484-491)
StartProcessing ==
    /\ startup = "done"
    /\ IF running
       THEN /\ last_start' = "already_running"
            /\ UNCHANGED tasks
       ELSE /\ Len(tasks) < MaxTasks
            /\ CreateTask("start_processing")
            /\ last_start' = "started"
    /\ UNCHANGED <<startup, redis_client, cosmos_container, consumer_client,
                   running, cfgVars, cbVars, extVars, metVars>>

\* first step of a process_events task (lines 234-264): return when there is
\* no consumer client, else set running and enter receive_batch
ProcessEventsStart(i) ==
    /\ i \in 1..Len(tasks)
    /\ tasks[i].pc = "created"
    /\ IF ~consumer_client
       THEN /\ tasks' = [tasks EXCEPT ![i].pc = "no_client"]
            /\ UNCHANGED running
       ELSE /\ tasks' = [tasks EXCEPT ![i].pc = "receiving"]
            /\ running' = TRUE
    /\ UNCHANGED <<startup, redis_client, cosmos_container, consumer_client,
                   last_start, cfgVars, cbVars, extVars, metVars>>

\* stages in which an on_event_batch callback is in flight
InFlight == {"event", "inject_sleep", "handler", "notify", "store",
             "lpush", "ltrim", "expire", "checkpoint"}

\* the Intake Loop exits (lines 258-267): receive_batch returns, or raises and
\* the error is counted; leaving "async with" closes the client, which
\* cancels the callbacks in flight
ProcessEventsExit(i, how) ==
    /\ i \in 1..Len(tasks)
    /\ tasks[i].pc = "receiving"
    /\ tasks' = [tasks EXCEPT ![i].pc = how]
    /\ errors' = IF how = "failed"
                 THEN [errors EXCEPT !["consumer_error"] = @ + 1]
                 ELSE errors
    /\ pc' = [p \in Partitions |->
                 IF pc[p] \in InFlight THEN "cancelled" ELSE pc[p]]
    /\ event' = [p \in Partitions |-> NoEvent]
    /\ mif' = [p \in Partitions |-> NothingRead]
    /\ span' = [p \in Partitions |-> "none"]
    /\ UNCHANGED <<startup, redis_client, cosmos_container, consumer_client,
                   running, last_start, cfgVars, size, done, extVars,
                   events_processed, notifications>>

\* POST /failure-injection (lines 504-516): three assignments, no suspension
ConfigureFailureInjection(config_update) ==
    /\ startup = "done"
    /\ Cardinality(versions \cup {config_update}) <= MaxVersions
    /\ config' = config_update
    /\ versions' = versions \cup {config_update}
    /\ UNCHANGED <<supVars, cbVars, extVars, metVars>>

(***************************************************************************)
(* The on_event_batch callback of one partition (lines 241-249) and        *)
(* process_single_event (lines 269-333).                                   *)
(***************************************************************************)
Receiving == \E i \in 1..Len(tasks) : tasks[i].pc = "receiving"

\* the decoded body of an event
EventData(e) == JsonLoads(e.body)

\* the for loop goes to the next event, or to update_checkpoint after the
\* last one (lines 246-249)
\* (variant: the loop runs once more than the batch has events)
NextStageOneMore(remaining) == IF remaining >= 0 THEN "event" ELSE "checkpoint"

\* (variant: update_checkpoint is called inside the for loop)
NextStageInsideLoop(remaining) == "checkpoint"

NextStage(remaining) == IF remaining > 0 THEN "event" ELSE "checkpoint"

\* process_single_event returns: the event has its terminal outcome
\* (variant: a failed event ends the for loop, the rest of the batch is skipped)
PopBreaks(p, outcome) ==
    /\ done' = [done EXCEPT ![p] = Append(@, outcome)]
    /\ event' = [event EXCEPT ![p] = NoEvent]
    /\ mif' = [mif EXCEPT ![p] = NothingRead]
    /\ span' = [span EXCEPT ![p] = "none"]
    /\ pc' = [pc EXCEPT ![p] = IF outcome = "processed"
                               THEN NextStage(size[p] - Len(done[p]) - 1)
                               ELSE "checkpointed"]

Pop(p, outcome) ==
    /\ done' = [done EXCEPT ![p] = Append(@, outcome)]
    /\ event' = [event EXCEPT ![p] = NoEvent]
    /\ mif' = [mif EXCEPT ![p] = NothingRead]
    /\ span' = [span EXCEPT ![p] = "none"]
    /\ pc' = [pc EXCEPT ![p] = NextStage(size[p] - Len(done[p]) - 1)]

\* lines 313-323: the event is counted as processed
Succeed(p) ==
    /\ Pop(p, "processed")
    /\ events_processed' = events_processed + 1
    /\ UNCHANGED errors

\* lines 325-333: the exception is caught, logged and counted as an error
\* (variant: the exception is counted and raised again, out of on_event_batch)
FailRaises(p, exception) ==
    /\ done' = [done EXCEPT ![p] = Append(@, exception)]
    /\ event' = [event EXCEPT ![p] = NoEvent]
    /\ mif' = [mif EXCEPT ![p] = NothingRead]
    /\ span' = [span EXCEPT ![p] = "none"]
    /\ pc' = [pc EXCEPT ![p] = "failed"]
    /\ errors' = [errors EXCEPT !["processing_error"] = @ + 1]
    /\ UNCHANGED events_processed

\* (variant: the exception is caught and logged, and no counter records it)
FailUncounted(p, exception) ==
    /\ Pop(p, exception)
    /\ UNCHANGED <<errors, events_processed>>

Fail(p, exception) ==
    /\ Pop(p, exception)
    /\ errors' = [errors EXCEPT !["processing_error"] = @ + 1]
    /\ UNCHANGED events_processed

\* the callback suspends at the next await: it works on event e, its
\* maybe_inject_failure call has read m, its span carries s
Suspend(p, at, e, m, s) ==
    /\ pc' = [pc EXCEPT ![p] = at]
    /\ event' = [event EXCEPT ![p] = e]
    /\ mif' = [mif EXCEPT ![p] = m]
    /\ span' = [span EXCEPT ![p] = s]
    /\ UNCHANGED <<done, events_processed, errors>>

\* lines 309-316: the cache write if there is a Redis client, then the metrics
\* (variant: a store error other than a conflict is raised again and fails the
\* event)
AfterStoreRaises(p, s) ==
    IF s = "exception"
    THEN Fail(p, "CosmosHttpResponseError")
    ELSE IF redis_client
    THEN Suspend(p, "lpush", event[p], mif[p], s)
    ELSE Succeed(p)

\* (variant: a conflict is handled like the other store errors would be if
\* they were escalated: the event fails)
AfterStoreConflictFails(p, s) ==
    IF s = "duplicate_event"
    THEN Fail(p, "CosmosResourceExistsError")
    ELSE IF redis_client
    THEN Suspend(p, "lpush", event[p], mif[p], s)
    ELSE Succeed(p)

AfterStore(p, s) ==
    IF redis_client
    THEN Suspend(p, "lpush", event[p], mif[p], s)
    ELSE Succeed(p)

\* lines 305-307: the store write if there is a container
\* (variant: the cache write comes first)
AfterHandlerCacheFirst(p) ==
    IF redis_client
    THEN Suspend(p, "lpush", event[p], mif[p], span[p])
    ELSE IF cosmos_container
    THEN Suspend(p, "store", event[p], mif[p], span[p])
    ELSE Succeed(p)

AfterHandler(p) ==
    IF cosmos_container
    THEN Suspend(p, "store", event[p], mif[p], span[p])
    ELSE AfterStore(p, span[p])

\* lines 297-303 up to the handler's first await: the order handlers read the
\* body with .get (lines 338, 355), which raises on a body that is no object
Dispatch(p, e, m) ==
    IF EventTypeOf(e) \in {"OrderCreated", "OrderStatusUpdated"}
       /\ EventData(e).kind # "dict"
    THEN Fail(p, "AttributeError")
    ELSE Suspend(p, "handler", e, m, "none")

\* the stream client hands a batch of n events to on_event_batch (lines
\* 241-246); each event is an input of process_single_event, drawn when the
\* for loop reaches it
OnEventBatch(p, n) ==
    /\ Receiving
    /\ pc[p] \notin InFlight
    /\ delivered[p] < MaxBatches
    /\ delivered' = [delivered EXCEPT ![p] = @ + 1]
    /\ size' = [size EXCEPT ![p] = n]
    /\ done' = [done EXCEPT ![p] = <<>>]
    /\ pc' = [pc EXCEPT ![p] = NextStage(n)]
    /\ UNCHANGED <<supVars, cfgVars, event, mif, span, checkpoints, store,
                   cache, ttl, metVars>>

\* what maybe_inject_failure has read of the policy when it has gone as far
\* as how: the enabled flag, the latency probability if enabled, the error
\* probability if it got to the second draw
ReadSoFar(cfg, how) ==
    LET fields == IF ~cfg.FAILURE_INJECTION_ENABLED
                  THEN {"FAILURE_INJECTION_ENABLED"}
                  ELSE IF how = "sleep"
                  THEN {"FAILURE_INJECTION_ENABLED",
                        "LATENCY_INJECTION_PROBABILITY"}
                  ELSE DOMAIN cfg
    IN  [f \in fields |-> cfg[f]]

\* process_single_event(e) from its start to its first await (lines 271-299)
ProcessSingleEvent(p, e) ==
    /\ pc[p] = "event"
    /\ IF ~EventData(e).ok
       THEN Fail(p, "JSONDecodeError")
       ELSE \E r1, r2 \in Draws :
              LET inject == InjectStart(config, r1, r2) IN
                CASE inject = "sleep" ->
                       Suspend(p, "inject_sleep", e,
                               ReadSoFar(config, inject), "none")
                  [] inject = "raise" -> Fail(p, "Simulated error")
                  [] OTHER -> Dispatch(p, e, ReadSoFar(config, inject))
    /\ UNCHANGED <<supVars, cfgVars, size, extVars, notifications>>

\* maybe_inject_failure after its injected delay (lines 447-452): the error
\* probability is read now
InjectWake(p) ==
    /\ pc[p] = "inject_sleep"
    /\ \E r2 \in Draws :
          IF InjectError(config.ERROR_INJECTION_PROBABILITY, r2) = "raise"
          THEN Fail(p, "Simulated error")
          ELSE Dispatch(p, event[p],
                        [f \in DOMAIN config |->
                            IF f \in DOMAIN mif[p] THEN mif[p][f] ELSE config[f]])
    /\ UNCHANGED <<supVars, cfgVars, size, extVars, notifications>>

\* a handler after its simulated work (lines 345-350, 362-364, 370-372)
\* (variant: the status handler sends a notification too)
HandlerWakeStatusNotifies(p) ==
    /\ pc[p] = "handler"
    /\ CASE EventTypeOf(event[p]) \in {"OrderCreated", "OrderStatusUpdated"} ->
              Suspend(p, "notify", event[p], mif[p], span[p])
         [] OTHER -> IF EventData(event[p]).kind # "dict"
                     THEN Fail(p, "AttributeError")
                     ELSE AfterHandler(p)
    /\ UNCHANGED <<supVars, cfgVars, size, extVars, notifications>>

HandlerWake(p) ==
    /\ pc[p] = "handler"
    /\ CASE EventTypeOf(event[p]) = "OrderCreated" ->
              Suspend(p, "notify", event[p], mif[p], span[p])
         [] EventTypeOf(event[p]) = "OrderStatusUpdated" -> AfterHandler(p)
         [] OTHER -> IF EventData(event[p]).kind # "dict"
                     THEN Fail(p, "AttributeError")
                     ELSE AfterHandler(p)
    /\ UNCHANGED <<supVars, cfgVars, size, extVars, notifications>>

\* send_notification after its delay (lines 381-383)
NotifyWake(p) ==
    /\ pc[p] = "notify"
    /\ notifications' = notifications + 1
    /\ AfterHandler(p)
    /\ UNCHANGED <<supVars, cfgVars, size, extVars>>

(***************************************************************************)
(* store_processed_event (lines 385-417), cache_event_summary (lines       *)
(* 419-434) and update_checkpoint (line 249): each await ends with the     *)
(* collaborator's answer.                                                  *)
(***************************************************************************)
\* the documents of a container that carry an id
DocumentsWithId(container, id) == {d \in container : d.id = id}

\* upsert_item answers (lines 401-417): applied, a 409 conflict (a document of
\* that id is there already), or another error; none of them leaves
\* store_processed_event. The clock is the one read when the document was built.
UpsertReply(p, answer, clock) ==
    /\ pc[p] = "store"
    /\ LET document == Document(EventData(event[p]).value,
                                EventTypeOf(event[p]), clock)
       IN  CASE answer = "ok" ->
                  /\ store' = UpsertItem(store, document)
                  /\ AfterStore(p, "document_id")
             [] answer = "conflict" ->
                  /\ DocumentsWithId(store, document.id) # {}
                  /\ UNCHANGED store
                  /\ AfterStore(p, "duplicate_event")
             [] OTHER ->
                  /\ UNCHANGED store
                  /\ AfterStore(p, "exception")
    /\ UNCHANGED <<supVars, cfgVars, size, delivered, checkpoints, cache, ttl,
                   notifications>>

\* lpush answers (line 429); an error is caught at line 433
LPushReply(p, answer, clock) ==
    /\ pc[p] = "lpush"
    /\ LET key == CacheKey(EventTypeOf(event[p]))
           summary == EventSummary(EventData(event[p]).value,
                                   EventTypeOf(event[p]), clock)
       IN  IF answer = "ok"
           THEN /\ cache' = [cache EXCEPT ![key] = LPush(@, summary)]
                /\ Suspend(p, "ltrim", event[p], mif[p], span[p])
           ELSE /\ UNCHANGED cache
                /\ Succeed(p)
    /\ UNCHANGED <<supVars, cfgVars, size, delivered, checkpoints, store, ttl,
                   notifications>>

\* ltrim answers (line 430)
LTrimReply(p, answer) ==
    /\ pc[p] = "ltrim"
    /\ LET key == CacheKey(EventTypeOf(event[p]))
       IN  IF answer = "ok"
           THEN /\ cache' = [cache EXCEPT ![key] = LTrim(@, 0, LTRIM_STOP)]
                /\ Suspend(p, "expire", event[p], mif[p], span[p])
           ELSE /\ UNCHANGED cache
                /\ Succeed(p)
    /\ UNCHANGED <<supVars, cfgVars, size, delivered, checkpoints, store, ttl,
                   notifications>>

\* expire answers (line 431); Redis sets no expiry on a key that is gone
\* (variant: expire is awaited after the try block, so its error leaves
\* process_single_event's callers: the callback ends)
ExpireReplyRaises(p, answer) ==
    /\ pc[p] = "expire"
    /\ LET key == CacheKey(EventTypeOf(event[p]))
       IN  ttl' = IF answer = "ok" /\ cache[key] # <<>>
                  THEN [ttl EXCEPT ![key] = EXPIRE_SECONDS]
                  ELSE ttl
    /\ IF answer = "ok"
       THEN Succeed(p)
       ELSE /\ pc' = [pc EXCEPT ![p] = "failed"]
            /\ UNCHANGED <<event, done, mif, span, events_processed, errors>>
    /\ UNCHANGED <<supVars, cfgVars, size, delivered, checkpoints, store,
                   cache, notifications>>

ExpireReply(p, answer) ==
    /\ pc[p] = "expire"
    /\ LET key == CacheKey(EventTypeOf(event[p]))
       IN  ttl' = IF answer = "ok" /\ cache[key] # <<>>
                  THEN [ttl EXCEPT ![key] = EXPIRE_SECONDS]
                  ELSE ttl
    /\ Succeed(p)
    /\ UNCHANGED <<supVars, cfgVars, size, delivered, checkpoints, store,
                   cache, notifications>>

\* Redis drops a key whose expiry has passed
KeyExpires(key) ==
    /\ ttl[key] > 0
    /\ cache' = [cache EXCEPT ![key] = <<>>]
    /\ ttl' = [ttl EXCEPT ![key] = 0]
    /\ UNCHANGED <<supVars, cfgVars, cbVars, delivered, checkpoints, store,
                   metVars>>

\* on_error (lines 251-255)
OnError == errors' = [errors EXCEPT !["partition_error"] = @ + 1]

\* update_checkpoint answers (line 249); an error leaves on_event_batch and
\* the stream client reports it to on_error
UpdateCheckpoint(p, answer) ==
    /\ pc[p] = "checkpoint"
    /\ IF answer = "ok"
       THEN /\ checkpoints' = [checkpoints EXCEPT ![p] = @ + 1]
            /\ pc' = [pc EXCEPT ![p] = "checkpointed"]
            /\ UNCHANGED errors
       ELSE /\ pc' = [pc EXCEPT ![p] = "failed"]
            /\ OnError
            /\ UNCHANGED checkpoints
    /\ UNCHANGED <<supVars, cfgVars, size, event, done, mif, span, delivered,
                   store, cache, ttl, events_processed, notifications>>

\* the stream client reports an error of a partition whose callback is not
\* running
\* (variant: the report ends the callbacks that are in flight)
PartitionErrorHalts(p) ==
    /\ Receiving
    /\ pc[p] \notin InFlight
    /\ errors["partition_error"] < MaxPartitionErrors
    /\ OnError
    /\ pc' = [q \in Partitions |->
                 IF pc[q] \in InFlight THEN "cancelled" ELSE pc[q]]
    /\ UNCHANGED <<supVars, cfgVars, size, event, done, mif, span, extVars,
                   events_processed, notifications>>

PartitionError(p) ==
    /\ Receiving
    /\ pc[p] \notin InFlight
    /\ errors["partition_error"] < MaxPartitionErrors
    /\ OnError
    /\ UNCHANGED <<supVars, cfgVars, cbVars, extVars, events_processed,
                   notifications>>

(***************************************************************************)
(* The whole service.                                                      *)
(***************************************************************************)
Next ==
    \/ \E ping_ok, cosmos_set, hub_set \in BOOLEAN :
          Startup(ping_ok, cosmos_set, hub_set)
    \/ StartProcessing
    \/ \E i \in 1..MaxTasks : ProcessEventsStart(i)
    \/ \E i \in 1..MaxTasks, how \in {"returned", "failed"} :
          ProcessEventsExit(i, how)
    \/ \E config_update \in Policies : ConfigureFailureInjection(config_update)
    \/ \E p \in Partitions, n \in BatchSizes : OnEventBatch(p, n)
    \/ \E p \in Partitions, e \in Events : ProcessSingleEvent(p, e)
    \/ \E p \in Partitions : InjectWake(p)
    \/ \E p \in Partitions : HandlerWake(p)
    \/ \E p \in Partitions : NotifyWake(p)
    \/ \E p \in Partitions, answer \in StoreAnswers, clock \in ClockReadings :
          UpsertReply(p, answer, clock)
    \/ \E p \in Partitions, answer \in Answers, clock \in ClockReadings :
          LPushReply(p, answer, clock)
    \/ \E p \in Partitions, answer \in Answers : LTrimReply(p, answer)
    \/ \E p \in Partitions, answer \in Answers : ExpireReply(p, answer)
    \/ \E key \in CacheKeys : KeyExpires(key)
    \/ \E p \in Partitions, answer \in Answers : UpdateCheckpoint(p, answer)
    \/ \E p \in Partitions : PartitionError(p)

Spec == Init /\ [][Next]_vars

(***************************************************************************)
(* Slices of the service. Each one is Spec with its environment narrowed:  *)
(* its initial states are initial states of Spec and each of its steps is  *)
(* a step of Next, so each of its behaviours is a behaviour of Spec.       *)
(***************************************************************************)
OrderCreatedEvent == [EventType |-> "OrderCreated", body |-> BodyOrder]

CacheEmpty == \A k \in CacheKeys : cache[k] = <<>>
CacheFull == \A k \in CacheKeys : Len(cache[k]) = LTRIM_STOP + 1

\* The supervisor alone: startup, start requests and the tasks they create;
\* the stream hands over empty batches only, and reports partition errors.
NextSupervisor ==
    \/ \E ping_ok, cosmos_set, hub_set \in BOOLEAN :
          Startup(ping_ok, cosmos_set, hub_set)
    \/ StartProcessing
    \/ \E i \in 1..MaxTasks : ProcessEventsStart(i)
    \/ \E i \in 1..MaxTasks, how \in {"returned", "failed"} :
          ProcessEventsExit(i, how)
    \/ \E p \in Partitions : OnEventBatch(p, 0)
    \/ \E p \in Partitions, answer \in Answers : UpdateCheckpoint(p, answer)
    \/ \E p \in Partitions : PartitionError(p)

InitSupervisor == Init /\ CacheEmpty /\ config = DefaultPolicy

SpecSupervisor == InitSupervisor /\ [][NextSupervisor]_vars

\* The failure-injection policy: any policy at start, any update at any
\* time, one partition, well-formed order events, collaborators that answer.
NextPolicy ==
    \/ \E cosmos_set \in BOOLEAN : Startup(TRUE, cosmos_set, TRUE)
    \/ \E i \in 1..MaxTasks : ProcessEventsStart(i)
    \/ \E config_update \in Policies : ConfigureFailureInjection(config_update)
    \/ \E n \in BatchSizes : OnEventBatch("0", n)
    \/ ProcessSingleEvent("0", OrderCreatedEvent)
    \/ InjectWake("0")
    \/ HandlerWake("0")
    \/ NotifyWake("0")
    \/ UpsertReply("0", "ok", 1)
    \/ LPushReply("0", "ok", 1)
    \/ LTrimReply("0", "ok")
    \/ ExpireReply("0", "ok")
    \/ UpdateCheckpoint("0", "ok")

InitPolicy == Init /\ CacheEmpty

SpecPolicy == InitPolicy /\ [][NextPolicy]_vars

\* One partition's batches: every event, every answer of every collaborator,
\* the loop's exit; the default policy, under which every outcome of
\* maybe_inject_failure can happen at every call.
NextBatch ==
    \/ \E ping_ok, cosmos_set, hub_set \in BOOLEAN :
          Startup(ping_ok, cosmos_set, hub_set)
    \/ \E i \in 1..MaxTasks : ProcessEventsStart(i)
    \/ \E i \in 1..MaxTasks, how \in {"returned", "failed"} :
          ProcessEventsExit(i, how)
    \/ \E n \in BatchSizes : OnEventBatch("0", n)
    \/ \E e \in Events : ProcessSingleEvent("0", e)
    \/ InjectWake("0")
    \/ HandlerWake("0")
    \/ NotifyWake("0")
    \/ \E answer \in StoreAnswers : UpsertReply("0", answer, 1)
    \/ \E answer \in Answers : LPushReply("0", answer, 1)
    \/ \E answer \in Answers : LTrimReply("0", answer)
    \/ \E answer \in Answers : ExpireReply("0", answer)
    \/ \E answer \in Answers : UpdateCheckpoint("0", answer)

InitBatch == Init /\ CacheEmpty /\ config = DefaultPolicy

SpecBatch == InitBatch /\ [][NextBatch]_vars

\* Two partitions racing on the store: order events of one entity, failure
\* injection disabled, every answer of the store, at any clock reading; Redis
\* answers.
NextStore ==
    \/ Startup(TRUE, TRUE, TRUE)
    \/ \E i \in 1..MaxTasks : ProcessEventsStart(i)
    \/ \E p \in Partitions, n \in BatchSizes : OnEventBatch(p, n)
    \/ \E p \in Partitions : ProcessSingleEvent(p, OrderCreatedEvent)
    \/ \E p \in Partitions : HandlerWake(p)
    \/ \E p \in Partitions : NotifyWake(p)
    \/ \E p \in Partitions, answer \in StoreAnswers, clock \in ClockReadings :
          UpsertReply(p, answer, clock)
    \/ \E p \in Partitions : LPushReply(p, "ok", 1)
    \/ \E p \in Partitions : LTrimReply(p, "ok")
    \/ \E p \in Partitions : ExpireReply(p, "ok")
    \/ \E p \in Partitions : UpdateCheckpoint(p, "ok")

InitStore == Init /\ CacheEmpty /\ config = DisabledPolicy

SpecStore == InitStore /\ [][NextStore]_vars

\* Two partitions racing on the Redis lists: order events, failure injection
\* disabled, no container, lists that are full at start, every answer of Redis.
NextCache ==
    \/ Startup(TRUE, FALSE, TRUE)
    \/ \E i \in 1..MaxTasks : ProcessEventsStart(i)
    \/ \E p \in Partitions, n \in BatchSizes : OnEventBatch(p, n)
    \/ \E p \in Partitions : ProcessSingleEvent(p, OrderCreatedEvent)
    \/ \E p \in Partitions : HandlerWake(p)
    \/ \E p \in Partitions : NotifyWake(p)
    \/ \E p \in Partitions, answer \in Answers, clock \in ClockReadings :
          LPushReply(p, answer, clock)
    \/ \E p \in Partitions, answer \in Answers : LTrimReply(p, answer)
    \/ \E p \in Partitions, answer \in Answers : ExpireReply(p, answer)
    \/ \E p \in Partitions : UpdateCheckpoint(p, "ok")

InitCache == Init /\ CacheFull /\ config = DisabledPolicy

SpecCache == InitCache /\ [][NextCache]_vars

\* Two partitions and the errors of the stream: order events, failure
\* injection disabled, no container, Redis answers; update_checkpoint may
\* raise and the stream client may report partition errors.
NextPartitions ==
    \/ Startup(TRUE, FALSE, TRUE)
    \/ \E i \in 1..MaxTasks : ProcessEventsStart(i)
    \/ \E p \in Partitions, n \in BatchSizes : OnEventBatch(p, n)
    \/ \E p \in Partitions : ProcessSingleEvent(p, OrderCreatedEvent)
    \/ \E p \in Partitions : HandlerWake(p)
    \/ \E p \in Partitions : NotifyWake(p)
    \/ \E p \in Partitions : LPushReply(p, "ok", 1)
    \/ \E p \in Partitions : LTrimReply(p, "ok")
    \/ \E p \in Partitions : ExpireReply(p, "ok")
    \/ \E p \in Partitions, answer \in Answers : UpdateCheckpoint(p, answer)
    \/ \E p \in Partitions : PartitionError(p)

InitPartitions == Init /\ CacheEmpty /\ config = DisabledPolicy

SpecPartitions == InitPartitions /\ [][NextPartitions]_vars

\* one step of the on_event_batch callback of a partition: the coroutine is
\* resumed at the await it is suspended in, with whatever the awaited call
\* answers
CallbackStep(p) ==
    \/ \E e \in Events : ProcessSingleEvent(p, e)
    \/ InjectWake(p)
    \/ HandlerWake(p)
    \/ NotifyWake(p)
    \/ \E answer \in StoreAnswers : UpsertReply(p, answer, 1)
    \/ \E answer \in Answers : LPushReply(p, answer, 1)
    \/ \E answer \in Answers : LTrimReply(p, answer)
    \/ \E answer \in Answers : ExpireReply(p, answer)
    \/ \E answer \in Answers : UpdateCheckpoint(p, answer)

\* One partition's batches to their end: every event, every answer of every
\* collaborator, the default policy, the loop's exit. Every await of the
\* callback ends (delays are finite) and the event loop resumes a coroutine
\* that can run.
NextLive ==
    \/ Startup(TRUE, TRUE, TRUE)
    \/ \E i \in 1..MaxTasks : ProcessEventsStart(i)
    \/ \E i \in 1..MaxTasks : ProcessEventsExit(i, "failed")
    \/ \E n \in BatchSizes : OnEventBatch("0", n)
    \/ CallbackStep("0")

InitLive == Init /\ CacheEmpty /\ config = DefaultPolicy

SpecLive == InitLive /\ [][NextLive]_vars /\ WF_vars(CallbackStep("0"))

(***************************************************************************)
(* Properties.                                                             *)
(***************************************************************************)
\* the terminal outcomes of an event: process_single_event returned, with the
\* event processed or with the exception it recorded
Outcomes == {"processed", "JSONDecodeError", "Simulated error", "AttributeError"}

\* this step is the return of process_single_event for an event of p, with
\* the outcome given
Returns(p, outcome) ==
    /\ Len(done'[p]) = Len(done[p]) + 1
    /\ done'[p] = Append(done[p], outcome)

\* after this step the for loop of p goes on: to the next event of the batch,
\* or to update_checkpoint if the event was the last one
LoopGoesOn(p) ==
    IF Len(done'[p]) < size[p]
    THEN pc'[p] = "event"
    ELSE pc'[p] = "checkpoint"

\* this step records exactly one processing error and nothing else: no event
\* counted as processed, no notification, no write to the store or the cache
OneProcessingError ==
    /\ errors' = [errors EXCEPT !["processing_error"] = @ + 1]
    /\ UNCHANGED <<events_processed, notifications, store, cache, ttl>>

\* C1: the checkpoint of a partition advances only in a step of
\* update_checkpoint that is taken after the for loop is over: every event of
\* the batch has its terminal outcome, none is unattempted or in flight; and it
\* advances by one. A callback that is at update_checkpoint, or past it, has
\* all the events of its batch behind it.
C1_CheckpointAfterBatch ==
    [][\A p \in Partitions :
          /\ checkpoints'[p] # checkpoints[p] =>
                /\ checkpoints'[p] = checkpoints[p] + 1
                /\ pc[p] = "checkpoint" /\ pc'[p] = "checkpointed"
                /\ event[p] = NoEvent
                /\ Len(done[p]) = size[p]
                /\ \A k \in 1..size[p] : done[p][k] \in Outcomes
                /\ done'[p] = done[p]
          /\ pc'[p] \in {"checkpoint", "checkpointed"} =>
                Len(done'[p]) = size'[p]]_vars

\* C1 witness: the checkpoint advanced after a batch of two events, of which
\* one failed and one was processed
C1_Witness ==
    /\ pc["0"] = "checkpointed" /\ checkpoints["0"] = 1
    /\ size["0"] = 2 /\ Len(done["0"]) = 2
    /\ done["0"][1] # "processed" /\ done["0"][2] = "processed"

\* C3: when json.loads fails for an event, the step records one processing
\* error and nothing else, the outcomes of the earlier events stay, and the
\* for loop goes on with the next event (or with update_checkpoint), at any
\* position in the batch.
C3_MalformedFailsOneEvent ==
    [][\A p \in Partitions :
          Returns(p, "JSONDecodeError") =>
             /\ pc[p] = "event"
             /\ OneProcessingError
             /\ LoopGoesOn(p)]_vars

\* C3 witness: the first event of a batch of two was malformed, the second
\* one was processed, and the checkpoint advanced
C3_Witness ==
    /\ done["0"] = <<"JSONDecodeError", "processed">>
    /\ pc["0"] = "checkpointed"
    /\ errors["processing_error"] = 1 /\ events_processed = 1

\* C10: when maybe_inject_failure raises for an event, at once or after its
\* injected delay, no handler has run for the event, the step records one
\* processing error and nothing else, on_event_batch does not raise, and the
\* for loop goes on with the next event (or with update_checkpoint).
C10_InjectedFaultPerEvent ==
    [][\A p \in Partitions :
          Returns(p, "Simulated error") =>
             /\ pc[p] \in {"event", "inject_sleep"}
             /\ OneProcessingError
             /\ LoopGoesOn(p)
             /\ pc'[p] # "failed"]_vars

\* C10 witness: the first event of a batch of two got an injected error after
\* an injected delay or at once, the second one was processed, and the
\* checkpoint advanced
C10_Witness ==
    /\ done["0"] = <<"Simulated error", "processed">>
    /\ pc["0"] = "checkpointed"
    /\ errors["processing_error"] = 1 /\ events_processed = 1

\* the Intake Loops: the process_events tasks that are in receive_batch, or
\* that are created and will enter it at their first step
IntakeLoops ==
    {i \in 1..Len(tasks) :
        \/ tasks[i].pc = "receiving"
        \/ tasks[i].pc = "created" /\ consumer_client}

\* the tasks whose Intake Loop has exited, normally or with an exception
ExitedLoops == {i \in 1..Len(tasks) : tasks[i].pc \in {"returned", "failed"}}

\* this step is a POST /start-processing that was accepted or rejected
StartProcessingStep == last_start' # last_start \/ Len(tasks') > Len(tasks)

\* C4: a start-processing call that follows an accepted start-processing call,
\* with no loop exit so far, is rejected as already running, creates no task,
\* and leaves the service running.
C4_SecondStartRejected ==
    [][(/\ last_start = "started"
        /\ ExitedLoops = {}
        /\ StartProcessingStep)
       => (/\ last_start' = "already_running"
           /\ tasks' = tasks
           /\ running')]_vars

\* C5: there is at most one Intake Loop at any time.
C5_AtMostOneIntakeLoop == Cardinality(IntakeLoops) <= 1

\* C6: once the Intake Loop has exited and no other one exists, the service is
\* stopped: GET /health reports running = false (and so start-processing is
\* accepted).
C6_StoppedAfterLoopExit ==
    (ExitedLoops # {} /\ IntakeLoops = {}) => ~health_check.running

\* C7: no Redis list holds more than 100 entries, in any state: between the
\* push and the trim, with two callbacks in cache_event_summary, after a
\* failed trim.
C7_ListAtMostHundred ==
    \A key \in CacheKeys : Len(cache[key]) <= LTRIM_STOP + 1

\* this step is the start of a maybe_inject_failure call for an event of p:
\* process_single_event has decoded the body and goes on from line 295
StartsInjectCall(p) ==
    /\ pc[p] = "event"
    /\ pc'[p] # "event" \/ done'[p] # done[p]
    /\ ~Returns(p, "JSONDecodeError")

\* C8: a maybe_inject_failure call that starts while the policy is disabled
\* neither suspends in an injected delay nor raises an injected error,
\* whatever the two probabilities are: the event goes to its handler.
C8_DisabledInjectsNothing ==
    [][\A p \in Partitions :
          (StartsInjectCall(p) /\ ~config.FAILURE_INJECTION_ENABLED) =>
             /\ pc'[p] = "handler"
             /\ done'[p] = done[p]
             /\ errors' = errors]_vars

\* C8 witness: a policy with both probabilities above zero was disabled by
\* configure_failure_injection, and a call that started afterwards passed
C8_Witness ==
    /\ \E v \in versions : v.FAILURE_INJECTION_ENABLED
    /\ ~config.FAILURE_INJECTION_ENABLED
    /\ config.LATENCY_INJECTION_PROBABILITY > 0
    /\ config.ERROR_INJECTION_PROBABILITY > 0
    /\ pc["0"] = "handler"
    /\ mif["0"] = ReadSoFar(config, "pass")

\* C9: the values a maybe_inject_failure call has read of the policy all
\* belong to one policy version that was installed.
C9_OneVersionRead ==
    \A p \in Partitions :
       \E v \in versions : \A f \in DOMAIN mif[p] : mif[p][f] = v[f]

\* the id of the document of the order events the stream delivers
OrderDocumentId ==
    DocumentId(EventTypeOf(OrderCreatedEvent),
               JsonLoads(OrderCreatedEvent.body).value.OrderId)

\* the store acknowledged the write of the event p is working on: applied, or
\* answered with a conflict
WriteAcknowledged(p) == span[p] \in {"document_id", "duplicate_event"}

\* C2, as stated: once an event of the entity is processed, the store holds
\* exactly one document with the id {eventType}_{OrderId}.
C2_ExactlyOneOnceProcessed ==
    events_processed > 0 =>
       Cardinality(DocumentsWithId(store, OrderDocumentId)) = 1

\* C2, amended: the store never holds two documents with one id, however the
\* events of one entity are delivered (twice in a batch, on two partitions);
\* a document that is there survives; and once the store acknowledged a write
\* for an event, it holds exactly one document with the event's id.
C2_OneDocumentPerId ==
    [][/\ \A d1, d2 \in store' : d1.id = d2.id => d1 = d2
       /\ \A d \in store : DocumentsWithId(store', d.id) # {}
       /\ \A p \in Partitions :
             WriteAcknowledged(p)' =>
                Cardinality(DocumentsWithId(store', OrderDocumentId)) = 1]_vars

\* C2 witness: both partitions delivered the same event, one of them twice in
\* a batch; the writes were applied at different times, one was answered with
\* a conflict; the store holds the one document, as written last
C2_Witness ==
    /\ \A p \in Partitions : pc[p] = "checkpointed"
    /\ size["0"] = 2 /\ size["1"] = 1
    /\ events_processed = 3
    /\ store = {Document(JsonLoads(BodyOrder).value, "OrderCreated", 2)}

\* the stages in which the callback of a partition waits for the answer to a
\* store write or to a cache operation
WriteStages == {"store", "lpush", "ltrim", "expire"}

\* this step is the answer, good or bad, that the callback of p was waiting for
Answered(p) == pc'[p] # pc[p] /\ pc'[p] # "cancelled"

\* C11: whatever the store answers to the write of an event, the event goes on
\* to its cache write; whatever Redis answers to lpush, ltrim or expire, the
\* event goes on to the next cache operation or is counted as processed and
\* the for loop goes on; in neither case an error is counted or the callback
\* fails.
C11_WriteFailuresSwallowed ==
    [][\A p \in Partitions :
          (pc[p] \in WriteStages /\ Answered(p)) =>
             /\ errors' = errors
             /\ pc[p] = "store" =>
                   /\ pc'[p] = "lpush"
                   /\ UNCHANGED <<done, events_processed>>
             /\ pc[p] # "store" =>
                   \/ /\ pc'[p] \in {"ltrim", "expire"}
                      /\ UNCHANGED <<done, events_processed>>
                   \/ /\ Returns(p, "processed")
                      /\ events_processed' = events_processed + 1
                      /\ LoopGoesOn(p)]_vars

\* C11 witness: with a container and Redis configured, a batch of two events
\* went through their handlers, every store write and every push failed (the
\* store and the lists are empty), both events are counted as processed and the
\* checkpoint advanced
C11_Witness ==
    /\ cosmos_container /\ redis_client
    /\ done["0"] = <<"processed", "processed">>
    /\ store = {} /\ \A key \in CacheKeys : cache[key] = <<>>
    /\ events_processed = 2 /\ errors["processing_error"] = 0
    /\ pc["0"] = "checkpointed" /\ checkpoints["0"] = 1

\* the list the summary of the order events goes to
OrderCacheKey == CacheKey(EventTypeOf(OrderCreatedEvent))

\* C12: no answer of the store to the write of an event ends the event: the
\* answer is recorded on the span. When the store answers with a conflict, the
\* event is marked duplicate and goes on to its cache write, the store is left
\* as it is and holds exactly one document with the event's id, and no error
\* is counted; the event marked duplicate is then pushed to the list and
\* counted as processed, not as an error.
C12_ConflictIsSuccess ==
    [][\A p \in Partitions :
          /\ (pc[p] = "store" /\ Answered(p)) =>
                /\ span'[p] \in {"document_id", "duplicate_event", "exception"}
                /\ done'[p] = done[p]
          /\ (pc[p] = "store" /\ span'[p] = "duplicate_event") =>
                /\ pc'[p] = "lpush"
                /\ store' = store
                /\ Cardinality(DocumentsWithId(store', OrderDocumentId)) = 1
                /\ UNCHANGED <<errors, done, events_processed>>
          /\ (span[p] = "duplicate_event" /\ Answered(p)) =>
                /\ errors' = errors
                /\ Cardinality(DocumentsWithId(store', OrderDocumentId)) = 1
                /\ pc[p] = "lpush" =>
                      /\ pc'[p] = "ltrim"
                      /\ Len(cache'[OrderCacheKey]) = Len(cache[OrderCacheKey]) + 1
                /\ pc[p] = "ltrim" => pc'[p] = "expire"
                /\ pc[p] = "expire" =>
                      /\ Returns(p, "processed")
                      /\ events_processed' = events_processed + 1]_vars

\* C12 witness: the two partitions raced on one document id; the write of "1"
\* was applied, the write of "0" was answered with a conflict; both events
\* are in their cache writes, and the store holds the one document
C12_Witness ==
    /\ span["1"] = "document_id" /\ pc["1"] \in {"lpush", "ltrim", "expire"}
    /\ span["0"] = "duplicate_event" /\ pc["0"] = "expire"
    /\ Cardinality(store) = 1
    /\ errors["processing_error"] = 0

\* after this step the per-event pipeline of p is at its writes: the store
\* write if there is a container, else the cache write if there is a Redis
\* client, else the event is counted as processed
WritesNext(p) ==
    IF cosmos_container THEN pc'[p] = "store"
    ELSE IF redis_client THEN pc'[p] = "lpush"
    ELSE Returns(p, "processed")

\* this step ends the simulated work of the handler the type of p's event
\* selects: the order-created handler goes on to send_notification, the status
\* handler and the generic handler return, and no notification is sent yet
Handled(p) ==
    /\ notifications' = notifications
    /\ IF EventTypeOf(event[p]) = "OrderCreated"
       THEN pc'[p] = "notify"
       ELSE WritesNext(p)

\* a notification is sent only by send_notification, called by the
\* order-created handler, one per step
NotificationsByOrderCreated ==
    notifications' # notifications =>
       /\ notifications' = notifications + 1
       /\ \E p \in Partitions :
             /\ pc[p] = "notify" /\ Answered(p)
             /\ EventTypeOf(event[p]) = "OrderCreated"

\* the handler stage is entered from process_single_event after the body was
\* decoded and maybe_inject_failure returned, and left once: through
\* send_notification for an order-created event, then to the writes
HandlerStages(p) ==
    /\ (pc'[p] = "handler" /\ pc[p] # "handler") =>
          /\ pc[p] \in {"event", "inject_sleep"}
          /\ EventData(event'[p]).ok
    /\ (pc[p] = "inject_sleep" /\ Answered(p)) =>
          \/ pc'[p] = "handler"
          \/ Returns(p, "Simulated error")
          \/ Returns(p, "AttributeError")
    /\ (pc[p] = "notify" /\ Answered(p)) =>
          /\ notifications' = notifications + 1
          /\ WritesNext(p)

\* C13, as stated: every event that passed decoding and the fault guard gets
\* the handler of its type, with its effects: one notification for
\* OrderCreated, none for the others, and then the store and cache writes.
C13_EveryDecodedEventHandled ==
    [][/\ NotificationsByOrderCreated
       /\ \A p \in Partitions :
             /\ HandlerStages(p)
             /\ ~Returns(p, "AttributeError")
             /\ (pc[p] = "handler" /\ Answered(p)) => Handled(p)]_vars

\* C13, amended: every event whose body decodes to an object and that passed
\* the fault guard gets the handler of its type, with its effects: one
\* notification for OrderCreated, none for OrderStatusUpdated and for every
\* other type, and then the store and cache writes. (A body that decodes to
\* something else makes the handler raise AttributeError.)
C13_DispatchByType ==
    [][/\ NotificationsByOrderCreated
       /\ \A p \in Partitions :
             /\ HandlerStages(p)
             /\ (pc[p] = "handler" /\ Answered(p)
                   /\ EventData(event[p]).kind = "dict") => Handled(p)
             /\ (Returns(p, "AttributeError") /\ event[p] # NoEvent) =>
                   EventData(event[p]).kind # "dict"]_vars

\* C13 witness: an event without EventType, body {"foo": 1, "bar": 2}, went
\* through the generic handler, no notification was sent, and the event is in
\* the store and in the list of its type
C13_Witness ==
    /\ done["0"] = <<"processed">> /\ pc["0"] = "checkpointed"
    /\ notifications = 0
    /\ \E d \in store : d.id = "Unknown_unknown_1000" /\ d.eventType = "Unknown"
    /\ Len(cache[CacheKey("Unknown")]) = 1

\* the stages in which no batch of the partition is being worked on
BetweenBatches == {"idle", "checkpointed", "failed", "cancelled"}

C14_WitnessInterleaved ==
    /\ pc["0"] = "handler" /\ Len(done["0"]) = 1
    /\ pc["1"] = "notify" /\ Len(done["1"]) = 0

\* the state of the callback of one partition
Callback(p) == <<pc[p], size[p], event[p], done[p], mif[p], span[p]>>

\* C15: a step in which on_error runs for a partition counts one
\* partition_error and nothing else: the running state, the tasks, the
\* checkpoints, the store, the lists, the other counters and the callbacks of
\* every other partition, in flight or not, are as before. on_error runs when
\* the stream client reports an error and when update_checkpoint raises out of
\* on_event_batch.
C15_OnErrorFrame ==
    [][/\ \A p \in Partitions :
             (pc[p] = "checkpoint" /\ pc'[p] = "failed") =>
                errors'["partition_error"] = errors["partition_error"] + 1
       /\ errors'["partition_error"] # errors["partition_error"] =>
             /\ errors' = [errors EXCEPT !["partition_error"] = @ + 1]
             /\ UNCHANGED <<supVars, cfgVars, checkpoints, store, cache, ttl,
                            delivered, events_processed, notifications>>
             /\ \E p \in Partitions :
                   /\ pc[p] \notin InFlight \ {"checkpoint"}
                   /\ \A q \in Partitions \ {p} : Callback(q)' = Callback(q)]_vars

\* C15 witness: update_checkpoint raised on partition "0" and on_error
\* counted it; partition "1" is in the middle of its batch, at the
\* notification of its second event, and the service is running
C15_Witness ==
    /\ errors["partition_error"] = 1
    /\ pc["0"] = "failed" /\ checkpoints["0"] = 0
    /\ pc["1"] = "notify" /\ size["1"] = 2 /\ Len(done["1"]) = 1
    /\ running

\* C16: when initialize raises out of startup_event, startup has created no
\* process_events task, no Intake Loop exists, running is false, and nothing
\* was received or processed.
C16_FailedStartupStartsNothing ==
    startup = "failed" =>
       /\ tasks = <<>>
       /\ IntakeLoops = {}
       /\ ~running /\ ~health_check.running
       /\ ~consumer_client
       /\ \A p \in Partitions : pc[p] = "idle" /\ delivered[p] = 0

\* C16 witness: the Redis client was created, its ping failed, and startup
\* stopped there
C16_Witness ==
    /\ startup = "failed"
    /\ redis_client /\ ~cosmos_container /\ ~consumer_client
    /\ tasks = <<>>

\* the handler of p's event completes with the step p takes next: the
\* notification of the order-created handler, or the simulated work of the
\* other two
HandlerDone(p) ==
    \/ pc[p] = "notify"
    \/ pc[p] = "handler" /\ EventTypeOf(event[p]) # "OrderCreated"

\* C17: the store changes only in a step of the store write of an event, and
\* only with a container; the lists change only in a step of the cache write
\* of an event, and only with a Redis client; an event comes to its store
\* write only from its completed handler, and to its cache write only from its
\* store write, or from its completed handler when there is no container; an
\* event that ends with a failure outcome ends before its writes, with the
\* store and the lists as they were.
C17_WritesAfterHandler ==
    [][/\ store' # store =>
             \E p \in Partitions :
                pc[p] = "store" /\ Answered(p) /\ cosmos_container
       /\ cache' # cache =>
             \E p \in Partitions :
                pc[p] \in {"lpush", "ltrim"} /\ Answered(p) /\ redis_client
       /\ \A p \in Partitions :
             /\ (pc'[p] = "store" /\ pc[p] # "store") =>
                   HandlerDone(p) /\ cosmos_container
             /\ (pc'[p] = "lpush" /\ pc[p] # "lpush") =>
                   /\ redis_client
                   /\ \/ pc[p] = "store"
                      \/ HandlerDone(p) /\ ~cosmos_container
             /\ (\E x \in Outcomes \ {"processed"} : Returns(p, x)) =>
                   /\ pc[p] \in {"event", "inject_sleep", "handler"}
                   /\ UNCHANGED <<store, cache, ttl>>]_vars

\* C17 witness: an order-created event went through its handler and its
\* notification, its document is in the store, and its cache write has not
\* pushed yet
C17_Witness ==
    /\ pc["0"] = "lpush" /\ span["0"] = "document_id"
    /\ notifications = 1
    /\ Cardinality(store) = 1
    /\ \A key \in CacheKeys : cache[key] = <<>>

UnknownEvent == [EventType |-> NoProperty, body |-> BodyNoId]

\* One partition with a container: events with and without an OrderId,
\* failure injection disabled, the store applies every write, at any clock
\* reading; Redis answers.
NextRedelivery ==
    \/ Startup(TRUE, TRUE, TRUE)
    \/ \E i \in 1..MaxTasks : ProcessEventsStart(i)
    \/ \E n \in BatchSizes : OnEventBatch("0", n)
    \/ \E e \in {OrderCreatedEvent, UnknownEvent} : ProcessSingleEvent("0", e)
    \/ HandlerWake("0")
    \/ NotifyWake("0")
    \/ \E clock \in ClockReadings : UpsertReply("0", "ok", clock)
    \/ \E clock \in ClockReadings : LPushReply("0", "ok", clock)
    \/ LTrimReply("0", "ok")
    \/ ExpireReply("0", "ok")
    \/ UpdateCheckpoint("0", "ok")

InitRedelivery == Init /\ CacheEmpty /\ config = DisabledPolicy

SpecRedelivery == InitRedelivery /\ [][NextRedelivery]_vars

\* C19: the documentId is a function of the event's content: the documents the
\* store holds for one event type and one event body carry one id, whenever
\* the event was processed. (Every write is applied here, and a write replaces
\* the document of its id, so two documents of one content are two ids.)
C19_DocumentIdFromContent ==
    \A d1, d2 \in store :
       (d1.eventType = d2.eventType /\ d1.eventData = d2.eventData)
          => d1.id = d2.id


(***************************************************************************)
(* The Redis lists under successive cache_event_summary calls.             *)
(***************************************************************************)
\* Two partitions writing one list: order events, failure injection
\* disabled, no container, lists that are full at start, Redis answers every
\* command, at any clock reading; the list's key may expire.
NextRecent ==
    \/ Startup(TRUE, FALSE, TRUE)
    \/ \E i \in 1..MaxTasks : ProcessEventsStart(i)
    \/ \E p \in Partitions, n \in BatchSizes : OnEventBatch(p, n)
    \/ \E p \in Partitions : ProcessSingleEvent(p, OrderCreatedEvent)
    \/ \E p \in Partitions : HandlerWake(p)
    \/ \E p \in Partitions : NotifyWake(p)
    \/ \E p \in Partitions, clock \in ClockReadings : LPushReply(p, "ok", clock)
    \/ \E p \in Partitions : LTrimReply(p, "ok")
    \/ \E p \in Partitions : ExpireReply(p, "ok")
    \/ \E p \in Partitions : UpdateCheckpoint(p, "ok")
    \/ KeyExpires(OrderCacheKey)

InitRecent == Init /\ CacheFull /\ config = DisabledPolicy

SpecRecent == InitRecent /\ [][NextRecent]_vars

\* the stages of cache_event_summary, and the states with no call in it
CacheStages == {"lpush", "ltrim", "expire"}
NoCacheCall == \A p \in Partitions : pc[p] \notin CacheStages

\* the summaries cache_event_summary pushes for the order event
OrderSummary(clock) ==
    EventSummary(EventData(OrderCreatedEvent).value,
                 EventTypeOf(OrderCreatedEvent), clock)

\* the list is full and holds the summaries of n calls at its head, followed
\* by the most recent of the entries it held before them
HoldsMostRecent(list, n) ==
    LET pushed == {OrderSummary(clock) : clock \in ClockReadings}
    IN  /\ Len(list) = LTRIM_STOP + 1
        /\ \A i \in 1..n : list[i] \in pushed
        /\ \A i \in (n + 1)..Len(list) : list[i] = OldSummary

\* the key of the list has not expired since the start: entries it held at
\* the start are still there
NotExpiredSince(list) == list # <<>> /\ list[Len(list)] = OldSummary

\* C20 as stated: after n completed calls with no cache failure (the lists
\* held 100 entries before them), the list holds the 100 most recently pushed
\* summaries, newest at the head, and the other lists are as they were.
C20_LastHundredAfterCalls ==
    (NoCacheCall /\ events_processed > 0) =>
       /\ HoldsMostRecent(cache[OrderCacheKey], events_processed)
       /\ \A key \in CacheKeys \ {OrderCacheKey} :
             HoldsMostRecent(cache[key], 0)

\* C20: a call's push puts its summary at the head of the list of its event
\* type and its trim keeps the first 100 entries, so entries leave from the
\* tail, oldest first; the list changes by a push, a trim or the expiry of its
\* key only, and no other list changes. After n completed calls, with no call
\* in flight and the key not expired since they began, the list holds the 100
\* most recently pushed summaries, those of the n calls at its head.
C20_RecentSummariesKept ==
    [][/\ \A p \in Partitions :
            /\ (pc[p] = "lpush" /\ Answered(p)) =>
                  \E clock \in ClockReadings :
                     cache' = [cache EXCEPT ![OrderCacheKey] =
                                  <<OrderSummary(clock)>> \o @]
            /\ (pc[p] = "ltrim" /\ Answered(p)) =>
                  cache' = [cache EXCEPT ![OrderCacheKey] =
                               SubSeq(@, 1, Min(LTRIM_STOP + 1, Len(@)))]
       /\ cache' # cache =>
            \/ \E p \in Partitions : pc[p] \in {"lpush", "ltrim"} /\ Answered(p)
            \/ /\ ttl[OrderCacheKey] > 0
               /\ cache' = [cache EXCEPT ![OrderCacheKey] = <<>>]
       /\ (NoCacheCall' /\ NotExpiredSince(cache'[OrderCacheKey])) =>
            HoldsMostRecent(cache'[OrderCacheKey], events_processed')
       /\ \A key \in CacheKeys \ {OrderCacheKey} : cache'[key] = cache[key]]_vars

\* C20 witness: both partitions have completed their calls, pushed at
\* different clock readings; the later summary is at the head, the earlier one
\* behind it, then the entries the list held before, two of which are gone
C20_Witness ==
    /\ NoCacheCall
    /\ events_processed = 2
    /\ pc["0"] = "checkpointed" /\ pc["1"] = "checkpointed"
    /\ Len(cache[OrderCacheKey]) = LTRIM_STOP + 1
    /\ cache[OrderCacheKey][1] = OrderSummary(2)
    /\ cache[OrderCacheKey][2] = OrderSummary(1)
    /\ cache[OrderCacheKey][3] = OldSummary


(***************************************************************************)
(* The counters of process_single_event.                                   *)
(***************************************************************************)
\* events counted so far: as processed, or as processing errors
Counted == events_processed + errors["processing_error"]

\* this step is the return of process_single_event for an event of p
ReturnsEvent(p) == Len(done'[p]) = Len(done[p]) + 1

=============================================================================
